---- MODULE Spec2Model ----
(***************************************************************************)
(* A model of the two components of the repository:                        *)
(*                                                                         *)
(*   SurveillanceAgent.run      backend/director/agents/surveillance.py    *)
(*   FalVideoGenerationTool     backend/director/tools/fal_video.py        *)
(*                                                                         *)
(* run is one sequential procedure.  Every action below is one external    *)
(* call of run together with the local code that follows it up to the next *)
(* external call; the outcome of the external call (a value or an          *)
(* exception) is the action's input.  Text is a sequence of characters,    *)
(* so that formatting and joining are computed and not assumed.            *)
(***************************************************************************)
EXTENDS Integers, Sequences, FiniteSets, TLC

VARIABLES
    pc,                     \* position of run
    query,                  \* run's query argument
    actions,                \* output_message.actions
    content,                \* output_message.content (names of the items, in order)
    search_result_content,  \* local of run: SearchResultsContent
    video_content,          \* local of run: VideoContent
    search_summary_content, \* local of run: TextContent
    sink,                   \* what push_update()/publish() delivered, in order
    video,                  \* local of run
    scene_id,               \* local of run
    scene_index_id,         \* local of run
    scene_index_list,       \* local of run
    search_results,         \* local of run: the search client's result set
    shots,                  \* local of run
    compilation_stream_url, \* local of run
    search_result_text,     \* local of run
    calls,                  \* history: the external calls made by run, in order
    exc,                    \* the exception caught at line 262
    response,               \* what run gave its caller
    environ,                \* os.environ["FAL_KEY"]
    tools,                  \* history: instance -> api_key it was constructed with
    fal_runs,               \* history: the fal_client.run calls, in order
    files,                  \* file system: path -> bytes
    fal_raised              \* history: exceptions that left the tool's methods

runVars == <<pc, query, actions, content, search_result_content, video_content,
             search_summary_content, sink, video, scene_id, scene_index_id,
             scene_index_list, search_results, shots, compilation_stream_url,
             search_result_text, calls, exc, response>>

falVars == <<environ, tools, fal_runs, files, fal_raised>>

vars == <<runVars, falVars>>

----------------------------------------------------------------------------
(* Bounds of the model *)

MaxShots == 2

MaxIndexes == 2

MaxFalRuns == 2

----------------------------------------------------------------------------
(* Values *)

None == "None"

\* A local of run that no assignment has reached yet.
UnboundLocal == [status |-> "unbound"]

NoException == [type |-> "none"]

NoResponse == [kind |-> "none"]

Queries == {<<"q">>, <<"q", "2">>}

ErrTexts == {<<"e", "1">>, <<"e", "2">>}

SceneIndexIds == {"idx1", "idx2"}

SceneIds == {"scene1"}

StreamUrls == {"url1", "url2"}

TheVideo == [title |-> "cam", stream_url |-> "vurl", length |-> "60"]

ShotPool ==
    { [search_score |-> "0.9", start |-> "0", end |-> "5", text |-> <<"a">>],
      [search_score |-> "0.7", start |-> "5", end |-> "9", text |-> <<"b", "\n">>],
      [search_score |-> "0.3", start |-> "9", end |-> "12", text |-> <<>>] }

ShotSeqs == UNION {[1..n -> ShotPool] : n \in 0..MaxShots}

\* An index the service lists carries its (non-empty) scene_index_id.
SceneIndexRecords == {[scene_index_id |-> i, name |-> "n"] : i \in SceneIndexIds}

SceneIndexLists == UNION {[1..n -> SceneIndexRecords] : n \in 0..MaxIndexes}

----------------------------------------------------------------------------
(* Helpers of run *)

\* A slip: the test of line 157 taking every value for an index.
TruthyAlways(x) == TRUE

\* Python truth of a scene_index_id: None and the empty value are false.
Truthy(x) == x \notin {None, ""}

\* "\n\n".join(list)
RECURSIVE join(_, _)
join(sep, list) ==
    IF list = <<>> THEN <<>>
    ELSE IF Len(list) = 1 THEN list[1]
    ELSE list[1] \o sep \o join(sep, Tail(list))

\* A content item as constructed: status=MsgStatus.progress, no payload yet.
NewContent(message) ==
    [status |-> "progress", status_message |-> message, payload |-> None]

\* A slip: the message is updated and the status forgotten.
SucceedKeepsStatus(item, message) ==
    [item EXCEPT !.status_message = message]

Succeed(item, message) ==
    [item EXCEPT !.status = "success", !.status_message = message]

Fail(item, message) ==
    [item EXCEPT !.status = "error", !.status_message = message]

\* The except handler's "if X.status != MsgStatus.success: X.status = error".
ForceClose(item, message) ==
    IF item.status # "success" THEN Fail(item, message) ELSE item

StatusOf(name, s, v, t) ==
    CASE name = "search_results" -> s.status
      [] name = "video" -> v.status
      [] name = "text" -> t.status

\* The statuses of output_message.content, in order, as a flush shows them.
Snapshot(cont, s, v, t) ==
    [i \in 1..Len(cont) |-> StatusOf(cont[i], s, v, t)]

\* A slip: the flush left out.
PushUpdateDropped(snk, acts, cont, s, v, t) == snk

\* output_message.push_update(); the flush itself is taken to return.
PushUpdate(snk, acts, cont, s, v, t) ==
    Append(snk, [kind |-> "push_update", actions |-> acts,
                 content |-> Snapshot(cont, s, v, t)])

\* output_message.publish()
Publish(snk, acts, cont, s, v, t) ==
    Append(snk, [kind |-> "publish", actions |-> acts,
                 content |-> Snapshot(cont, s, v, t)])

LastFlushed(snk) == IF snk = <<>> THEN <<>> ELSE snk[Len(snk)].content

\* One external call, as the history keeps it.
Call(name, ok, arg, result) ==
    [name |-> name, ok |-> ok, arg |-> arg, result |-> result,
     flushed |-> LastFlushed(sink)]

ExternalError(text) == [type |-> "Exception", text |-> text]

IndexUnavailable ==
    [type |-> "ValueError", text |-> <<"Scene indexing returned no results">>]

\* A slip: the last listed index taken for the first.
LastSceneIndexId(list) == list[Len(list)].scene_index_id

\* scene_index_list[0].get("scene_index_id")
FirstSceneIndexId(list) == list[1].scene_index_id

\* A slip: index creation tried again when it raised.
OnCreateFailedRetry == "index_scene"

\* The bare except of line 151: where run goes when index creation raised.
OnCreateFailed == "list_scene_index"

\* A slip: the message without the query.
NoShotsMessageNoQuery(q) == <<"Failed due to no search results found for query ">>

NoShotsMessage(q) == <<"Failed due to no search results found for query ">> \o q

\* A slip: the texts joined by one newline.
SummaryTextSingleNewline(sh) ==
    join(<<"\n">>, [i \in 1..Len(sh) |-> sh[i].text])

\* Lines 254-255: the texts of the shots, joined by "\n\n".
SummaryText(sh) ==
    join(<<"\n", "\n">>, [i \in 1..Len(sh) |-> sh[i].text])

NoShotsResponse(q) ==
    [kind |-> "return", status |-> "ERROR", message |-> NoShotsMessage(q),
     data |-> [message |-> NoShotsMessage(q)]]

ErrorResponse(e) ==
    [kind |-> "return", status |-> "ERROR",
     message |-> <<"Failed to search: ">> \o e.text]

SuccessResponse(url, text) ==
    [kind |-> "return", status |-> "SUCCESS",
     message |-> <<"Agent surveillance completed task successfully!">>,
     data |-> [stream_url |-> url, text |-> text]]

\* An exception that leaves run: reading a local that was never assigned.
UnboundLocalError(name, context) ==
    [kind |-> "raise", type |-> "UnboundLocalError", text |-> <<name>>,
     context |-> context]

----------------------------------------------------------------------------
(* SurveillanceAgent.run *)

InitRun ==
    /\ pc = "start"
    /\ query = None
    /\ actions = <<>>
    /\ content = <<>>
    /\ search_result_content = UnboundLocal
    /\ video_content = UnboundLocal
    /\ search_summary_content = UnboundLocal
    /\ sink = <<>>
    /\ video = None
    /\ scene_id = None
    /\ scene_index_id = None
    /\ scene_index_list = None
    /\ search_results = None
    /\ shots = None
    /\ compilation_stream_url = None
    /\ search_result_text = None
    /\ calls = <<>>
    /\ exc = NoException
    /\ response = NoResponse

InitFal ==
    /\ environ = None
    /\ tools = [t \in {"toolA", "toolB"} |-> None]
    /\ fal_runs = <<>>
    /\ files = [p \in {"out.mp4"} |-> None]
    /\ fal_raised = {}

Init == InitRun /\ InitFal

\* Lines 124-133: the search item is created in progress and flushed.
RunStart ==
    /\ pc = "start"
    /\ \E q \in Queries : query' = q
    /\ actions' = Append(actions, "Started Processing Surveillance Footage")
    /\ search_result_content' =
           NewContent("Started searching in the surveilleance footage")
    /\ content' = Append(content, "search_results")
    /\ sink' = PushUpdate(sink, actions', content', search_result_content',
                          video_content, search_summary_content)
    /\ pc' = "get_video"
    /\ UNCHANGED <<video_content, search_summary_content, video, scene_id,
                   scene_index_id, scene_index_list, search_results, shots,
                   compilation_stream_url, search_result_text, calls, exc,
                   response, falVars>>

\* Lines 135-137.
GetVideo ==
    /\ pc = "get_video"
    /\ \/ /\ calls' = Append(calls, Call("get_video", TRUE, "video1", TheVideo))
          /\ video' = TheVideo
          /\ scene_index_id' = None
          /\ pc' = "index_scene"
          /\ exc' = exc
       \/ \E e \in ErrTexts :
          /\ calls' = Append(calls, Call("get_video", FALSE, "video1", e))
          /\ exc' = ExternalError(e)
          /\ pc' = "except"
          /\ UNCHANGED <<video, scene_index_id>>
    /\ UNCHANGED <<query, actions, content, search_result_content, video_content,
                   search_summary_content, sink, scene_id, scene_index_list,
                   search_results, shots, compilation_stream_url,
                   search_result_text, response, falVars>>

\* Lines 139-149 and the bare except of line 151.
IndexScene ==
    /\ pc = "index_scene"
    /\ \/ \E sc \in SceneIds :
          /\ calls' = Append(calls, Call("index_scene", TRUE, "video1", sc))
          /\ scene_id' = sc
          /\ pc' = "get_scene_index"
       \/ \E e \in ErrTexts :
          /\ calls' = Append(calls, Call("index_scene", FALSE, "video1", e))
          /\ scene_id' = scene_id
          /\ pc' = OnCreateFailed
    /\ UNCHANGED <<query, actions, content, search_result_content, video_content,
                   search_summary_content, sink, video, scene_index_id,
                   scene_index_list, search_results, shots,
                   compilation_stream_url, search_result_text, exc, response,
                   falVars>>

\* Lines 157-160, with scene_index_id as the acquisition left it.
CheckSceneIndex(sid) ==
    IF Truthy(sid)
    THEN /\ pc' = "semantic_search"
         /\ UNCHANGED <<actions, sink, exc>>
    ELSE /\ actions' = Append(actions, "Scene index not found")
         /\ sink' = PushUpdate(sink, actions', content, search_result_content,
                               video_content, search_summary_content)
         /\ exc' = IndexUnavailable
         /\ pc' = "except"

\* Line 150 (and 151 when it raises), then lines 157-160.
GetSceneIndex ==
    /\ pc = "get_scene_index"
    /\ \/ \E r \in SceneIndexIds \cup {None} :
          /\ calls' = Append(calls, Call("get_scene_index", TRUE, scene_id, r))
          /\ scene_index_id' = r
          /\ CheckSceneIndex(r)
       \/ \E e \in ErrTexts :
          /\ calls' = Append(calls, Call("get_scene_index", FALSE, scene_id, e))
          /\ pc' = OnCreateFailed
          /\ UNCHANGED <<scene_index_id, actions, sink, exc>>
    /\ UNCHANGED <<query, content, search_result_content, video_content,
                   search_summary_content, video, scene_id, scene_index_list,
                   search_results, shots, compilation_stream_url,
                   search_result_text, response, falVars>>

\* Lines 152-154, then lines 157-160.
ListSceneIndex ==
    /\ pc = "list_scene_index"
    /\ \/ \E l \in SceneIndexLists :
          /\ calls' = Append(calls, Call("list_scene_index", TRUE, "video1", l))
          /\ scene_index_list' = l
          /\ scene_index_id' =
                 IF l # <<>> THEN FirstSceneIndexId(l) ELSE scene_index_id
          /\ CheckSceneIndex(scene_index_id')
       \/ \E e \in ErrTexts :
          /\ calls' = Append(calls, Call("list_scene_index", FALSE, "video1", e))
          /\ exc' = ExternalError(e)
          /\ pc' = "except"
          /\ UNCHANGED <<scene_index_list, scene_index_id, actions, sink>>
    /\ UNCHANGED <<query, content, search_result_content, video_content,
                   search_summary_content, video, scene_id, search_results,
                   shots, compilation_stream_url, search_result_text, response,
                   falVars>>

\* Lines 162-187: the search, a flush, and the two other items in progress.
SemanticSearch ==
    /\ pc = "semantic_search"
    /\ \/ \E ss \in ShotSeqs :
          /\ calls' = Append(calls, Call("semantic_search", TRUE,
                                         scene_index_id, ss))
          /\ search_results' = [shots |-> ss]
          /\ sink' = PushUpdate(sink, actions, content, search_result_content,
                                video_content, search_summary_content)
          /\ video_content' = NewContent("Started video compilation")
          /\ search_summary_content' =
                 NewContent("Started generating summary of search results")
          /\ content' = content \o <<"video", "text">>
          /\ pc' = "get_shots"
          /\ exc' = exc
       \/ \E e \in ErrTexts :
          /\ calls' = Append(calls, Call("semantic_search", FALSE,
                                         scene_index_id, e))
          /\ exc' = ExternalError(e)
          /\ pc' = "except"
          /\ UNCHANGED <<search_results, sink, video_content,
                         search_summary_content, content>>
    /\ UNCHANGED <<query, actions, search_result_content, video, scene_id,
                   scene_index_id, scene_index_list, shots,
                   compilation_stream_url, search_result_text, response,
                   falVars>>

\* Lines 211-237: the SearchData handed to the search item.
SearchData(v, sh) ==
    <<[video_id |-> "video1", video_title |-> v.title,
       stream_url |-> v.stream_url, duration |-> v.length, shots |-> sh]>>

\* Lines 189-244: the no-shots return, or the search item done and flushed.
GetShots ==
    /\ pc = "get_shots"
    /\ \/ /\ calls' = Append(calls, Call("get_shots", TRUE, None,
                                         search_results.shots))
          /\ shots' = search_results.shots
          /\ IF shots' = <<>>
             THEN /\ search_result_content' =
                         Fail(search_result_content, "Failed to get search results")
                  /\ video_content' =
                         Fail(video_content, "Couldn't compile a video of the results")
                  /\ search_summary_content' =
                         Fail(search_summary_content,
                              "Failed to generate summary of results")
                  /\ response' = NoShotsResponse(query)
                  /\ pc' = "done"
                  /\ UNCHANGED <<actions, sink>>
             ELSE /\ search_result_content' =
                         Succeed([search_result_content EXCEPT
                                     !.payload = SearchData(video, shots')],
                                 "Searching in footage done")
                  /\ actions' = Append(actions,
                                       "Generating search result and footage clip..")
                  /\ sink' = PushUpdate(sink, actions', content,
                                        search_result_content', video_content,
                                        search_summary_content)
                  /\ pc' = "compile"
                  /\ UNCHANGED <<video_content, search_summary_content, response>>
          /\ exc' = exc
       \/ \E e \in ErrTexts :
          /\ calls' = Append(calls, Call("get_shots", FALSE, None, e))
          /\ exc' = ExternalError(e)
          /\ pc' = "except"
          /\ UNCHANGED <<shots, search_result_content, video_content,
                         search_summary_content, response, actions, sink>>
    /\ UNCHANGED <<query, content, video, scene_id, scene_index_id,
                   scene_index_list, search_results, compilation_stream_url,
                   search_result_text, falVars>>

\* Lines 246-252.
Compile ==
    /\ pc = "compile"
    /\ \/ \E url \in StreamUrls :
          /\ calls' = Append(calls, Call("compile", TRUE, None, url))
          /\ compilation_stream_url' = url
          /\ video_content' =
                 Succeed([video_content EXCEPT !.payload = [stream_url |-> url]],
                         "Footage video compiled")
          /\ actions' = Append(actions, "Generating search result summary..")
          /\ sink' = PushUpdate(sink, actions', content, search_result_content,
                                video_content', search_summary_content)
          /\ pc' = "summary"
          /\ exc' = exc
       \/ \E e \in ErrTexts :
          /\ calls' = Append(calls, Call("compile", FALSE, None, e))
          /\ exc' = ExternalError(e)
          /\ pc' = "except"
          /\ UNCHANGED <<compilation_stream_url, video_content, actions, sink>>
    /\ UNCHANGED <<query, content, search_result_content,
                   search_summary_content, video, scene_id, scene_index_id,
                   scene_index_list, search_results, shots, search_result_text,
                   response, falVars>>

\* Lines 254-261, and the return of lines 286-293 when publish() returns.
Summarize ==
    /\ pc = "summary"
    /\ search_result_text' = SummaryText(shots)
    /\ search_summary_content' =
           Succeed([search_summary_content EXCEPT !.payload = search_result_text'],
                   "Here is the summary of search results.")
    /\ \/ /\ sink' = Publish(sink, actions, content, search_result_content,
                             video_content, search_summary_content')
          /\ response' = SuccessResponse(compilation_stream_url,
                                         search_result_text')
          /\ pc' = "done"
          /\ exc' = exc
       \/ \E e \in ErrTexts :
          /\ exc' = ExternalError(e)
          /\ pc' = "except"
          /\ UNCHANGED <<sink, response>>
    /\ UNCHANGED <<query, actions, content, search_result_content,
                   video_content, video, scene_id, scene_index_id,
                   scene_index_list, search_results, shots,
                   compilation_stream_url, calls, falVars>>

\* Lines 262-284.  Reading video_content or search_summary_content before
\* line 173 or 181 assigned it raises UnboundLocalError out of the handler.
Except ==
    /\ pc = "except"
    /\ search_result_content' =
           ForceClose(search_result_content, "Failed to get search results")
    /\ IF video_content = UnboundLocal
       THEN /\ response' = UnboundLocalError("video_content", exc)
            /\ UNCHANGED <<video_content, search_summary_content>>
       ELSE /\ video_content' =
                   ForceClose(video_content,
                              "Failed to create compilation of search results")
            /\ IF search_summary_content = UnboundLocal
               THEN /\ response' =
                           UnboundLocalError("search_summary_content", exc)
                    /\ UNCHANGED search_summary_content
               ELSE /\ search_summary_content' =
                           ForceClose(search_summary_content,
                                      "Failed to generate summary of results")
                    /\ response' = ErrorResponse(exc)
    /\ pc' = "done"
    /\ UNCHANGED <<query, actions, content, sink, video, scene_id,
                   scene_index_id, scene_index_list, search_results, shots,
                   compilation_stream_url, search_result_text, calls, exc,
                   falVars>>

Next ==
    \/ RunStart
    \/ GetVideo
    \/ IndexScene
    \/ GetSceneIndex
    \/ ListSceneIndex
    \/ SemanticSearch
    \/ GetShots
    \/ Compile
    \/ Summarize
    \/ Except

Spec == Init /\ [][Next]_vars

----------------------------------------------------------------------------
(* FalVideoGenerationTool *)

ToolInstances == {"toolA", "toolB"}

ApiKeys == {"key1", "key2"}

Configs == {<<>>, [model_name |-> "fal-ai/mochi-v1"]}

VideoBytes == {"bytes1", "bytes2"}

\* config.get(key, default)
ConfigGet(config, key, default) ==
    IF key \in DOMAIN config THEN config[key] ELSE default

\* The credential of a fal_client.run call: line 40 passes none, so the
\* client takes the one the process environment holds when the call is made.
FalCredential == environ

\* Lines 33-36.
Construct(t) ==
    /\ tools[t] = None
    /\ \E k \in ApiKeys \cup {""} :
          IF k = ""
          THEN /\ fal_raised' = fal_raised \cup
                      {[tool |-> t, at |-> "__init__",
                        text |-> "FAL API key not found"]}
               /\ UNCHANGED <<environ, tools>>
          ELSE /\ environ' = k
               /\ tools' = [tools EXCEPT ![t] = k]
               /\ fal_raised' = fal_raised
    /\ UNCHANGED <<fal_runs, files, runVars>>

\* Lines 38-47.  Nothing is caught: an exception of the generation call or
\* of the fetch leaves text_to_video; open(save_at, "wb") has then already
\* emptied the file when it is the fetch that raised.
TextToVideo(t) ==
    /\ tools[t] # None
    /\ Len(fal_runs) < MaxFalRuns
    /\ \E config \in Configs, save_at \in DOMAIN files :
       /\ fal_runs' = Append(fal_runs,
              [tool |-> t,
               model_name |-> ConfigGet(config, "model_name", "fal-ai/minimax-video"),
               credential |-> FalCredential])
       /\ \/ /\ fal_raised' = fal_raised \cup
                    {[tool |-> t, at |-> "fal_client.run", text |-> "error"]}
             /\ files' = files
          \/ /\ fal_raised' = fal_raised \cup
                    {[tool |-> t, at |-> "requests.get", text |-> "error"]}
             /\ files' = [files EXCEPT ![save_at] = ""]
          \/ \E b \in VideoBytes :
             /\ files' = [files EXCEPT ![save_at] = b]
             /\ fal_raised' = fal_raised
    /\ UNCHANGED <<environ, tools, runVars>>

NextFal ==
    \/ \E t \in ToolInstances : Construct(t)
    \/ \E t \in ToolInstances : TextToVideo(t)

SpecFal == Init /\ [][NextFal]_vars

----------------------------------------------------------------------------
(* Vocabulary of the properties *)

CallsNamed(n) == {i \in 1..Len(calls) : calls[i].name = n}

ClientCalls == {"get_video", "index_scene", "get_scene_index",
                "list_scene_index", "semantic_search", "get_shots", "compile"}

CreationCalls == {"index_scene", "get_scene_index"}

ItemStatuses == <<search_result_content.status, video_content.status,
                  search_summary_content.status>>

Returned(status) == response.kind = "return" /\ response.status = status

CreateFailed == \E i \in 1..Len(calls) :
                    calls[i].name \in CreationCalls /\ ~calls[i].ok

\* The listing answered with at least one index.
ListedSome == \E i \in CallsNamed("list_scene_index") :
                  calls[i].ok /\ calls[i].result # <<>>

\* The listing answered with no index.
ListedNone == \E i \in CallsNamed("list_scene_index") :
                  calls[i].ok /\ calls[i].result = <<>>

NoShots == \E i \in CallsNamed("get_shots") :
               calls[i].ok /\ calls[i].result = <<>>

IsPrefix(a, b) == Len(a) <= Len(b) /\ SubSeq(b, 1, Len(a)) = a

\* What the sink was shown, a flush that shows the same as the one before
\* it left out.
RECURSIVE Dedup(_)
Dedup(seq) ==
    IF Len(seq) <= 1 THEN seq
    ELSE IF seq[1] = seq[2] THEN Dedup(Tail(seq))
    ELSE <<seq[1]>> \o Dedup(Tail(seq))

SinkContents == [i \in 1..Len(sink) |-> sink[i].content]

SearchStarted == <<"progress">>

SearchDone == <<"success", "progress", "progress">>

CompilationDone == <<"success", "success", "progress">>

SummaryDone == <<"success", "success", "success">>

Milestones == <<SearchStarted, SearchDone, CompilationDone, SummaryDone>>

RECURSIVE SumLen(_)
SumLen(texts) ==
    IF texts = <<>> THEN 0 ELSE Len(texts[1]) + SumLen(Tail(texts))

\* Where the i-th text starts in a summary whose texts are two characters apart.
OffsetOf(texts, i) == SumLen(SubSeq(texts, 1, i - 1)) + 2 * (i - 1)

----------------------------------------------------------------------------
(* Properties *)

\* C1: whenever run has ended after an external step failed, it has returned
\* an AgentResponse of status ERROR whose message carries the exception text;
\* no exception leaves run.
C1_FailureReturnsError ==
    pc = "done" =>
        /\ response.kind = "return"
        /\ exc # NoException =>
               /\ response.status = "ERROR"
               /\ response.message = <<"Failed to search: ">> \o exc.text

\* C2: whenever run has ended, each of the three content items (search
\* results, video, text summary) has status success or error.
C2_NoItemLeftOpen ==
    pc = "done" =>
        \A i \in 1..3 : ItemStatuses[i] \in {"success", "error"}

\* C3: when index creation failed and the listing answered with at least one
\* index, run does not fail at index acquisition: it is about to issue, or has
\* issued, semantic_search with the scene_index_id of the first listed index.
C3_FallbackUsesFirstListed ==
    \A i \in CallsNamed("list_scene_index") :
        (CreateFailed /\ calls[i].ok /\ calls[i].result # <<>>) =>
            /\ exc # IndexUnavailable
            /\ scene_index_id = calls[i].result[1].scene_index_id
            /\ \/ pc = "semantic_search"
               \/ \E j \in CallsNamed("semantic_search") :
                      j > i /\ calls[j].arg = calls[i].result[1].scene_index_id

C3_Witness ==
    /\ \E i \in CallsNamed("list_scene_index") :
           /\ calls[i].ok
           /\ Len(calls[i].result) >= 2
           /\ calls[i].result[1] # calls[i].result[2]
    /\ CallsNamed("semantic_search") # {}

\* C4: when index creation failed and the listing answered with no index, run
\* fails with the index-unavailable condition (raised at line 160, after
\* "Scene index not found" was flushed), it does not return success, and
\* semantic_search, get_shots and compile are never called.
C4_NoIndexFailsBeforeSearch ==
    (CreateFailed /\ ListedNone) =>
        /\ exc = IndexUnavailable
        /\ pc \in {"except", "done"}
        /\ actions[Len(actions)] = "Scene index not found"
        /\ sink[Len(sink)].actions = actions
        /\ ~Returned("SUCCESS")
        /\ CallsNamed("semantic_search") = {}
        /\ CallsNamed("get_shots") = {}
        /\ CallsNamed("compile") = {}

C4_Witness == CreateFailed /\ ListedNone /\ pc = "done"

\* C5: when the search yields no shot, run returns status ERROR with the
\* message "Failed due to no search results found for query {query}", the
\* query in it literally, all three items are in error status, and compile is
\* never called.
C5_NoShotsReported ==
    NoShots =>
        /\ pc = "done"
        /\ Returned("ERROR")
        /\ response.message =
               <<"Failed due to no search results found for query ">> \o query
        /\ SubSeq(response.message, 2, Len(response.message)) = query
        /\ response.data.message = response.message
        /\ ItemStatuses = <<"error", "error", "error">>
        /\ CallsNamed("compile") = {}

C5_Witness == NoShots /\ Len(query) = 2

\* C6: when run returns status SUCCESS, the three items are in success status
\* and the returned data carries the stream URL compile produced and the
\* summary text of the text item.
C6_SuccessIsComplete ==
    Returned("SUCCESS") =>
        /\ ItemStatuses = <<"success", "success", "success">>
        /\ \E i \in CallsNamed("compile") :
               /\ calls[i].ok
               /\ response.data.stream_url = calls[i].result
               /\ video_content.payload.stream_url = calls[i].result
        /\ response.data.text = search_summary_content.payload
        /\ Len(response.data.text) >=
               SumLen([i \in 1..Len(search_results.shots) |->
                           search_results.shots[i].text])

C6_Witness == Returned("SUCCESS") /\ response.data.stream_url = "url2"

\* C7: every text_to_video call is made with the credential its own instance
\* was constructed with, whatever the order of the constructions and calls.
C7_OwnCredential ==
    \A i \in 1..Len(fal_runs) :
        fal_runs[i].credential = tools[fal_runs[i].tool]

\* C8: the summary is text(s1), ..., text(sn) of the shots the search client
\* returned, in that order, two newlines between consecutive texts, nothing
\* before the first and nothing after the last.
C8_SummaryInOrder ==
    Returned("SUCCESS") =>
        LET sh == search_results.shots
            texts == [i \in 1..Len(sh) |-> sh[i].text]
            n == Len(texts)
            sum == response.data.text
        IN  /\ n >= 1
            /\ sum = search_summary_content.payload
            /\ Len(sum) = SumLen(texts) + 2 * (n - 1)
            /\ \A i \in 1..n :
                   SubSeq(sum, OffsetOf(texts, i) + 1,
                          OffsetOf(texts, i) + Len(texts[i])) = texts[i]
            /\ \A i \in 1..(n - 1) :
                   /\ sum[OffsetOf(texts, i) + Len(texts[i]) + 1] = "\n"
                   /\ sum[OffsetOf(texts, i) + Len(texts[i]) + 2] = "\n"

C8_Witness ==
    /\ Returned("SUCCESS")
    /\ Len(search_results.shots) >= 2
    /\ search_results.shots[1].text # search_results.shots[2].text

C10_NoRetry ==
    /\ \A n \in ClientCalls : Cardinality(CallsNamed(n)) <= 1
    /\ Cardinality(CallsNamed("index_scene"))
           + Cardinality(CallsNamed("list_scene_index")) <= 2
    /\ \A i \in 1..Len(calls) :
           ~calls[i].ok =>
               IF calls[i].name \in CreationCalls
               THEN i < Len(calls) => calls[i + 1].name = "list_scene_index"
               ELSE i = Len(calls)

C10_Witness ==
    /\ pc = "done"
    /\ CreateFailed
    /\ \E i \in CallsNamed("compile") : ~calls[i].ok

====
